---- MODULE Spec2Model ----
(***************************************************************************)
(* Model of the discovery-and-download engine of src/fetcher/main_v3.py    *)
(* (class UnlimitedEpsteinArchiver): dataset discovery, page walking,       *)
(* verified downloads, the persistent cache and the command surface.        *)
(*                                                                           *)
(* One operating-system process runs at a time.  A process is born by one   *)
(* of the commands of main() (it constructs the archiver, which loads the   *)
(* cache), runs that command step by step and exits; it can be killed       *)
(* between any two steps, which loses the memory and keeps the disk.        *)
(***************************************************************************)
EXTENDS Integers, Sequences, FiniteSets, TLC

(***************************************************************************)
(* Bounds of the model.                                                     *)
(***************************************************************************)
\* most probes of one discovery when the server's answers are free
MaxProbes == 6
\* largest failure threshold tried when discover_all_datasets is called directly
MaxThreshold == 3
\* page ceiling passed as max_pages when discover_dataset_pages is called directly
MaxPagesArg == 6
\* most processes started in one behaviour
MaxRuns == 3
\* most calls of process_dataset on one archiver
MaxCalls == 3
\* Requests one record is given when download_file is called on it repeatedly.
MaxAttempts == 3
\* files the first page of the batch layout lists
BatchFiles == 11

(***************************************************************************)
(* Program constants.                                                       *)
(***************************************************************************)
\* discover_all_datasets(max_consecutive_failures=10)
DefaultMaxConsecutiveFailures == 10
\* discover_dataset_pages: max_consecutive_empty = 3
max_consecutive_empty == 3
\* discover_dataset_pages(max_pages=1000)
DefaultMaxPages == 1000
\* download_file: if file_size < 1024
MinFileSize == 1024
\* _verify_pdf: header = f.read(5)
HeaderLen == 5
\* response.iter_content(chunk_size=8192)
ChunkSize == 8192
\* "if current_dataset % 10 == 0" and "if i % 10 == 0"
SaveEvery == 10

(***************************************************************************)
(* The remote repository.  A file URL is known by its decoded basename     *)
(* (two distinct URLs may share one).                                       *)
(***************************************************************************)
Urls == {"u1", "u2", "u3"}

\* filename = unquote(os.path.basename(urlparse(file_url).path))
FileName(u) == IF u = "u3" THEN "b.pdf" ELSE "a.pdf"

\* A file content: whether its first five bytes are %PDF-, and its length.
Content(pdf, size) == [pdf |-> pdf, size |-> size]

GoodBody  == Content(TRUE, 9000)
MinBody   == Content(TRUE, 1024)
SmallBody == Content(TRUE, 1023)
HtmlBody  == Content(FALSE, 2000)
TinyBody  == Content(FALSE, 3)

Bodies == {GoodBody, MinBody, SmallBody, HtmlBody, TinyBody}

\* The bodies the servers of the layouts send.
LayoutBodies == {GoodBody, SmallBody, HtmlBody}

(***************************************************************************)
(* What the network does with one request: an HTTP answer with a status    *)
(* code (a listing carries the hrefs the extractor finds, a file carries   *)
(* its body), a timeout, or another network error.                          *)
(***************************************************************************)
Http(code, links, body) == [kind |-> "http", code |-> code, links |-> links, body |-> body]
Timeout  == [kind |-> "timeout", code |-> 0, links |-> <<>>, body |-> TinyBody]
NetError == [kind |-> "neterror", code |-> 0, links |-> <<>>, body |-> TinyBody]
Listing(links) == Http(200, links, TinyBody)
Status(code)   == Http(code, <<>>, TinyBody)
FileAnswer(b)  == Http(200, <<>>, b)

\* A response object, or None (kind "none").
NoResponse == [kind |-> "none", code |-> 0, links |-> <<>>, body |-> TinyBody]

\* _respectful_delay(min_seconds=2.0, max_seconds=5.0)
MinDelay == 2
MaxDelay == 5

\* A transport that goes straight to the request.
RespectfulDelay_Skipped(min_seconds, max_seconds) == {0}

\* _respectful_delay: time.sleep(random.uniform(min_seconds, max_seconds)),
\* the first statement of _make_request; the shortest and the longest sleep.
RespectfulDelay(min_seconds, max_seconds) == {min_seconds, max_seconds}

\* _make_request: None on 403, on a timeout and on any other exception.
MakeRequest(net) ==
    IF net.kind = "http" /\ net.code # 403 THEN net ELSE NoResponse

(***************************************************************************)
(* FileMetadata and CacheState.                                             *)
(***************************************************************************)
NoPath == <<>>
NoChecksum == <<>>
NoSize == -1

\* FileMetadata(url, filename, dataset, discovered_at): the dataclass defaults.
FileMetadata(u, d) ==
    [url |-> u, filename |-> FileName(u), dataset |-> d,
     last_checked |-> "None", status |-> "pending", download_path |-> NoPath,
     file_size |-> NoSize, checksum |-> NoChecksum, download_attempts |-> 0,
     last_error |-> "None", downloaded_at |-> "None"]

NoFiles == [u \in {} |-> FileMetadata("u1", 0)]

\* CacheState(): the dataclass defaults.
CacheState ==
    [files |-> NoFiles, datasets_scanned |-> {}, max_dataset_found |-> 0,
     total_discovered |-> 0, total_downloaded |-> 0, total_failed |-> 0,
     total_skipped |-> 0]

\* f with the entry k |-> v added or replaced.
Put(f, k, v) == [x \in DOMAIN f \cup {k} |-> IF x = k THEN v ELSE f[x]]

\* f without the keys of S.
Drop(f, S) == [x \in DOMAIN f \ S |-> f[x]]

(***************************************************************************)
(* The persisted documents.  A file of the cache directory is absent, holds *)
(* a complete JSON document, or holds the truncated text of a dump that did *)
(* not finish.                                                              *)
(***************************************************************************)
AbsentDoc    == [kind |-> "absent", data |-> CacheState]
TruncatedDoc == [kind |-> "truncated", data |-> CacheState]
JsonDoc(c)   == [kind |-> "json", data |-> c]
\* a file whose text is not JSON
GarbageDoc   == [kind |-> "garbage", data |-> CacheState]

\* class DownloadStatus(Enum): the values a "status" can be parsed from.
DownloadStatus == {"pending", "success", "failed", "skipped"}

\* class DownloadStatus(Enum): its members are not str, and asdict() keeps
\* them as members, so json has no encoding for the "status" of a record.
EnumIsJsonSerializable == FALSE

\* to_serializable + json.dump(serializable, f): the text that reaches the
\* file.  The encoder writes as it goes and raises TypeError at the first
\* value it cannot encode, which leaves the text written so far.
JsonDump(c) ==
    IF DOMAIN c.files = {} \/ EnumIsJsonSerializable
    THEN JsonDoc(c)
    ELSE TruncatedDoc

\* FileMetadata.from_dict: DownloadStatus(data['status']) raises ValueError
\* for a value that is no member's value.
FromDictRaises(data) ==
    \E u \in DOMAIN data.files : data.files[u].status \notin DownloadStatus

\* A loader that takes every JSON document as it is.
LoadCache_Unvalidated(doc) ==
    IF doc.kind = "json" THEN doc.data ELSE CacheState

\* json.load + CacheState.from_dict inside try/except Exception.
\* _load_cache: no file or an exception gives CacheState().
LoadCache(doc) ==
    IF doc.kind = "json" /\ ~FromDictRaises(doc.data)
    THEN doc.data
    ELSE CacheState

(***************************************************************************)
(* State.                                                                   *)
(***************************************************************************)
VARIABLES
    remote,                \* 0: the server answers freely; k > 0: layout k
    cache_file,            \* disk: cache/archive_cache.json
    backup_cache_file,     \* disk: cache/archive_cache_backup.json
    raw,                   \* disk: raw/dataset<d>/<name>, path |-> content
    temp,                  \* disk: raw/dataset<d>/<name>.tmp, path |-> content
    pc,                    \* where the running process is ("off": none)
    ret,                   \* where _save_cache returns to
    cmd,                   \* the command or call the process executes
    download,              \* discover_and_process_all(download=...)
    cache,                 \* self.cache
    threshold,             \* max_consecutive_failures
    existing_datasets,     \* discover_all_datasets: existing_datasets
    consecutive_failures,  \* discover_all_datasets: consecutive_failures
    current_dataset,       \* discover_all_datasets: current_dataset
    probe_log,             \* history: <<id, network answer>> of every probe
    dataset_num,           \* discover_dataset_pages: dataset_num
    max_pages,             \* discover_dataset_pages: max_pages
    page,                  \* discover_dataset_pages: page
    consecutive_empty_pages, \* discover_dataset_pages: consecutive_empty_pages
    all_files,             \* discover_dataset_pages: all_files (their urls)
    files,                 \* process_dataset: files, the walk's return value
    page_log,              \* history: <<page, network answer>> of the walk
    ds_i,                  \* discover_and_process_all: i, datasets begun
    file_i,                \* process_dataset: i, the file being downloaded
    response,              \* download_file: response
    dl_result,             \* how the last call of download_file ended
    last_request,          \* history: the request the last step issued
    slept,                 \* history: seconds the last step slept before it
    prev_exit,             \* history: how the previous process ended
    last_saved,            \* history: the last document a save wrote whole
    unsaved,               \* history: calls of download_file that process_dataset
                           \* made and that have ended since _save_cache was last called
    runs                   \* history: processes started so far

vars == <<remote, cache_file, backup_cache_file, raw, temp, pc, ret, cmd,
          download, cache, threshold, existing_datasets, consecutive_failures,
          current_dataset, probe_log, dataset_num, max_pages, page,
          consecutive_empty_pages, all_files, files, page_log, ds_i, file_i,
          response, dl_result, last_request, slept, prev_exit, last_saved, unsaved,
          runs>>

disk == <<cache_file, backup_cache_file, raw, temp>>
discoverer == <<threshold, existing_datasets, consecutive_failures,
                current_dataset, probe_log>>
walker == <<dataset_num, max_pages, page, consecutive_empty_pages, all_files,
            files, page_log>>
downloader == <<file_i, response, dl_result>>
process == <<ds_i, prev_exit, last_saved, unsaved, runs>>

NoRequest == <<"none", "", 0, 0>>
ProbeRequest(d)   == <<"probe", "", d, 0>>
PageRequest(d, p) == <<"page", "", d, p>>
FileRequest(u)    == <<"file", u, 0, 0>>

NoExit == [how |-> "none", phase |-> "none", url |-> "none", urls |-> {}]

NoContent == [p \in {} |-> TinyBody]

(***************************************************************************)
(* The server.  Layout k fixes the answer to every listing URL; the URL of *)
(* a dataset's probe is the URL of its page 0.                              *)
(***************************************************************************)
Layouts == {1, 2}
DiscoverLayouts == {1, 2, 3}

\* The layout whose dataset 1 lists on its first page more files than
\* process_dataset downloads between two saves, and which serves every one
\* of them.
BatchLayout == 4
BatchNames ==
    <<"f01", "f02", "f03", "f04", "f05", "f06", "f07", "f08", "f09", "f10",
      "f11", "f12", "f13">>
BatchList == SubSeq(BatchNames, 1, BatchFiles)

LayoutPage(k, d, p) ==
    CASE k = 1 /\ d = 1 /\ p = 0 -> Listing(<<"u1", "u3">>)
      [] k = 1 /\ d = 1 /\ p = 1 -> Listing(<<"u3">>)
      [] k = 1 /\ d \in {1, 2}   -> Listing(<<>>)
      [] k = 2 /\ d = 1 /\ p = 0 -> Listing(<<"u1">>)
      [] k = 2 /\ d = 1 /\ p = 1 -> Listing(<<"u2", "u1">>)
      [] k = 2 /\ d = 1 /\ p = 2 -> Status(500)
      [] k = 2 /\ d = 1          -> Status(403)
      [] k = 3 /\ d \in {1, 2, 3}   -> Listing(<<>>)
      [] k = BatchLayout /\ d = 1 /\ p = 0 -> Listing(BatchList)
      [] k = BatchLayout /\ d = 1 -> Listing(<<>>)
      [] OTHER                   -> Status(404)

\* The answers the network can give to the probe of dataset d.
ProbeNet(d) ==
    IF remote = 0
    THEN {Status(200), Status(403), Status(404), Status(500), Timeout}
    ELSE {LayoutPage(remote, d, 0)}

\* The answers the network can give to the request for page p of dataset d.
PageNet(d, p) ==
    IF remote = 0
    THEN {Listing(<<>>), Listing(<<"u1", "u2", "u1">>), Listing(<<"u2", "u3">>),
          Status(403), Status(404), Status(500), Timeout}
    ELSE {LayoutPage(remote, d, p)}

\* The locals of discover_dataset_pages and process_dataset when neither runs.
WalkerIdle ==
    /\ dataset_num = 0 /\ max_pages = 0 /\ page = 0
    /\ consecutive_empty_pages = 0
    /\ all_files = <<>> /\ files = <<>> /\ page_log = <<>>

\* The locals of download_file when it does not run.
DownloaderIdle ==
    file_i = 0 /\ response = NoResponse /\ dl_result = "none"

\* No process has run yet.
NoHistory ==
    /\ ds_i = 0 /\ last_request = NoRequest /\ slept = 0
    /\ prev_exit = NoExit /\ last_saved = AbsentDoc /\ unsaved = 0 /\ runs = 0

(***************************************************************************)
(* _save_cache, in the order of its effects on the disk: the backup copy   *)
(* (its destination opened, then filled), the open(..., 'w') that empties  *)
(* the file, the dump.                                                      *)
(***************************************************************************)
\* if self.cache_file.exists(): shutil.copy2(cache_file, backup_cache_file)
\* opens the backup for writing, which empties it.
SaveBackup ==
    /\ pc = "save_backup"
    /\ IF cache_file.kind # "absent"
       THEN backup_cache_file' = TruncatedDoc /\ pc' = "save_copy"
       ELSE backup_cache_file' = backup_cache_file /\ pc' = "save_open"
    /\ unsaved' = 0
    /\ last_request' = NoRequest /\ slept' = 0
    /\ UNCHANGED <<remote, cache_file, raw, temp, ret, cmd, download, cache,
                   discoverer, walker, downloader, ds_i, prev_exit,
                   last_saved, runs>>

\* shutil.copy2: the bytes of the cache file have reached the backup
SaveCopy ==
    /\ pc = "save_copy"
    /\ backup_cache_file' = cache_file
    /\ pc' = "save_open"
    /\ last_request' = NoRequest /\ slept' = 0
    /\ UNCHANGED <<remote, cache_file, raw, temp, ret, cmd, download, cache,
                   discoverer, walker, downloader, process>>

\* with open(self.cache_file, 'w') as f
SaveOpen ==
    /\ pc = "save_open"
    /\ cache_file' = TruncatedDoc
    /\ pc' = "save_dump"
    /\ last_request' = NoRequest /\ slept' = 0
    /\ UNCHANGED <<remote, backup_cache_file, raw, temp, ret, cmd, download,
                   cache, discoverer, walker, downloader, process>>

\* json.dump(serializable, f); an exception is logged and swallowed
SaveDump ==
    /\ pc = "save_dump"
    /\ cache_file' = JsonDump(cache)
    /\ last_saved' = IF JsonDump(cache).kind = "json" THEN JsonDump(cache)
                     ELSE last_saved
    /\ pc' = ret
    /\ last_request' = NoRequest /\ slept' = 0
    /\ UNCHANGED <<remote, backup_cache_file, raw, temp, ret, cmd, download,
                   cache, discoverer, walker, downloader, ds_i, prev_exit,
                   unsaved, runs>>

SaveCache == SaveBackup \/ SaveCopy \/ SaveOpen \/ SaveDump

(***************************************************************************)
(* discover_all_datasets                                                    *)
(***************************************************************************)
\* A failure counter that counts only the probes the server answered.
FailuresAfter_AnsweredOnly(resp, failures) ==
    IF resp.kind = "none" THEN failures
    ELSE IF resp.code = 200 THEN 0 ELSE failures + 1

\* The failure counter after one probe's response.
FailuresAfter(resp, failures) ==
    IF resp.kind # "none" /\ resp.code = 200 THEN 0 ELSE failures + 1

\* A watermark that is never raised.
Watermark_Unchanged(found, d) == found

\* "if current_dataset > self.cache.max_dataset_found:
\*      self.cache.max_dataset_found = current_dataset"
Watermark(found, d) == IF d > found THEN d ELSE found

\* One iteration of "while consecutive_failures < max_consecutive_failures".
DiscoverProbe ==
    /\ pc = "probe"
    /\ consecutive_failures < threshold
    /\ remote = 0 => Len(probe_log) < MaxProbes
    /\ \E net \in ProbeNet(current_dataset) :
         LET resp == MakeRequest(net)
             ok   == resp.kind # "none" /\ resp.code = 200
         IN /\ existing_datasets' =
                   IF ok THEN Append(existing_datasets, current_dataset)
                   ELSE existing_datasets
            /\ consecutive_failures' = FailuresAfter(resp, consecutive_failures)
            /\ cache' =
                   IF ok
                   THEN [cache EXCEPT !.max_dataset_found =
                                          Watermark(@, current_dataset)]
                   ELSE cache
            /\ probe_log' = Append(probe_log, <<current_dataset, net>>)
    /\ current_dataset' = current_dataset + 1
    /\ IF current_dataset' % SaveEvery = 0
       THEN pc' = "save_backup" /\ ret' = "probe"
       ELSE pc' = "probe" /\ ret' = ret
    /\ last_request' = ProbeRequest(current_dataset)
    /\ slept' \in RespectfulDelay(MinDelay, MaxDelay)
    /\ UNCHANGED <<remote, disk, cmd, download, threshold, walker, downloader,
                   process>>

\* The loop is over: self._save_cache(); return existing_datasets
DiscoverReturn ==
    /\ pc = "probe"
    /\ consecutive_failures >= threshold
    /\ pc' = "save_backup"
    /\ ret' = IF cmd = "run" THEN "next_dataset" ELSE "returned"
    /\ last_request' = NoRequest /\ slept' = 0
    /\ UNCHANGED <<remote, disk, cmd, download, cache, discoverer, walker,
                   downloader, process>>

(***************************************************************************)
(* _extract_file_links.  A page is the sequence of its hrefs, each standing *)
(* for the file URL it resolves to.  The patterns are tried one after the  *)
(* other, and every match of every pattern is appended.                    *)
(***************************************************************************)
\* How the href of a URL is written in the page.
HrefForm(u) ==
    CASE u = "u1" -> "relative_epstein"   \* href="/epstein/files/...a.pdf"
      [] u = "u2" -> "absolute_epstein"   \* href="https://.../epstein/files/...a.pdf"
      [] OTHER    -> "plain"              \* href="docs/b.pdf"

\* patterns[k] matches the href
PatternMatches(k, u) ==
    CASE k = 1 -> HrefForm(u) = "relative_epstein"
      [] k = 2 -> HrefForm(u) = "absolute_epstein"
      [] OTHER -> TRUE

MatchesOf(k, hrefs) ==
    LET M(u) == PatternMatches(k, u) IN SelectSeq(hrefs, M)

ExtractFileLinks(hrefs) ==
    MatchesOf(1, hrefs) \o MatchesOf(2, hrefs) \o MatchesOf(3, hrefs)

\* A filter that keeps every record, repeated ones too.
Unique_KeepingAll(s) == s

\* "if f.url not in seen_urls: seen_urls.add(f.url); unique.append(f)"
RECURSIVE Unique(_)
Unique(s) ==
    IF s = <<>> THEN <<>>
    ELSE LET front == Unique(SubSeq(s, 1, Len(s) - 1))
             last  == s[Len(s)]
         IN IF \E i \in 1..Len(front) : front[i] = last
            THEN front
            ELSE Append(front, last)

(***************************************************************************)
(* discover_dataset_pages                                                   *)
(***************************************************************************)
\* An empty-page counter that counts only the pages answered with an error.
EmptyPagesAfter_ErrorsOnly(resp, found, empties) ==
    IF resp.code = 200 THEN 0 ELSE empties + 1

\* An empty-page counter that takes a page for empty when none of its
\* links is new to the cache.
EmptyPagesAfter_ByNewLinks(resp, found, empties) ==
    IF resp.code = 200
         /\ \E i \in 1..Len(found) : found[i] \notin DOMAIN cache.files
    THEN 0 ELSE empties + 1

\* The empty-page counter after a page that did not end the walk.
EmptyPagesAfter(resp, found, empties) ==
    IF resp.code = 200
    THEN IF found # <<>> THEN 0 ELSE empties + 1
    ELSE empties + 1

\* A walk that stops at 404 only.
PageBreaks_NotFoundOnly(resp) == resp.kind # "none" /\ resp.code = 404

\* "break": None (403, timeout, error) or 404
PageBreaks(resp) == resp.kind = "none" \/ resp.code = 404

\* A loop condition without the page ceiling.
WalkGoesOn_NoCeiling(p, ceiling, empties) == empties < max_consecutive_empty

\* "while page < max_pages and consecutive_empty_pages <
\* max_consecutive_empty"
WalkGoesOn(p, ceiling, empties) ==
    p < ceiling /\ empties < max_consecutive_empty

\* One iteration of the while loop.
WalkPage ==
    /\ pc = "walk"
    /\ WalkGoesOn(page, max_pages, consecutive_empty_pages)
    /\ \E net \in PageNet(dataset_num, page) :
         LET resp  == MakeRequest(net)
             found == IF resp.kind # "none" /\ resp.code = 200
                      THEN ExtractFileLinks(resp.links) ELSE <<>>
         IN /\ page_log' = Append(page_log, <<page, net>>)
            /\ IF PageBreaks(resp)
               THEN /\ pc' = "merge"
                    /\ UNCHANGED <<page, consecutive_empty_pages, all_files>>
               ELSE /\ pc' = "walk"
                    /\ page' = page + 1
                    /\ consecutive_empty_pages' =
                           EmptyPagesAfter(resp, found, consecutive_empty_pages)
                    /\ all_files' = all_files \o Unique(found)
    /\ last_request' = PageRequest(dataset_num, page)
    /\ slept' \in RespectfulDelay(MinDelay, MaxDelay)
    /\ UNCHANGED <<remote, disk, ret, cmd, download, cache, discoverer,
                   dataset_num, max_pages, files, downloader, process>>

\* A filter that lets every record of the walk pass.
NewFiles_All(unique_files, known) == unique_files

\* The records of the walk that the cache does not hold yet.
NewFiles(unique_files, known) ==
    LET New(u) == u \notin known IN SelectSeq(unique_files, New)

Range(s) == {s[i] : i \in 1..Len(s)}

\* After the loop: drop duplicates, stamp the known records, add the new
\* ones, record the dataset, save, return new_files.
WalkMerge ==
    /\ \/ pc = "merge"
       \/ /\ pc = "walk"
          /\ ~WalkGoesOn(page, max_pages, consecutive_empty_pages)
    /\ LET unique_files == Unique(all_files)
           known     == DOMAIN cache.files
           new_files == NewFiles(unique_files, known)
           stamped   == [u \in known |->
                            IF u \in Range(unique_files)
                            THEN [cache.files[u] EXCEPT !.last_checked = "now"]
                            ELSE cache.files[u]]
           added     == [u \in known \cup Range(new_files) |->
                            IF u \in known THEN stamped[u]
                            ELSE FileMetadata(u, dataset_num)]
       IN /\ cache' = [cache EXCEPT
                          !.files = added,
                          !.total_discovered = @ + Len(new_files),
                          !.datasets_scanned = @ \cup {dataset_num}]
          /\ files' = new_files
    /\ pc' = "save_backup"
    /\ ret' = IF cmd \in {"run", "process"} THEN "after_walk" ELSE "returned"
    /\ last_request' = NoRequest /\ slept' = 0
    /\ UNCHANGED <<remote, disk, cmd, download, discoverer, dataset_num,
                   max_pages, page, consecutive_empty_pages, all_files, page_log,
                   downloader, process>>

(***************************************************************************)
(* download_file, in the order of its effects on the disk: the request,    *)
(* the open of the .tmp file, the chunks, the verification and the rename, *)
(* the record's update.                                                     *)
(***************************************************************************)
\* The answers the network can give to the request for a file.
DownloadNet ==
    IF remote = BatchLayout
    THEN {FileAnswer(GoodBody)}
    ELSE {FileAnswer(b) : b \in IF remote = 0 THEN Bodies ELSE LayoutBodies}
             \cup {Status(403), Status(404), Timeout}

\* dataset_dir / file_meta.filename
LocalFile(meta) == <<meta.dataset, meta.filename>>

\* The first n bytes of a content.
Prefix(c, n) == Content(c.pdf /\ n >= HeaderLen, n)

\* _verify_pdf: header == b'%PDF-'
VerifyPdf(c) == c.pdf

\* A size check that lets a file of 1023 bytes pass.
TooSmall_OffByOne(size) == size < MinFileSize - 1

\* "if file_size < 1024"
TooSmall(size) == size < MinFileSize

\* _calculate_checksum: the MD5 of the content.
Checksum(c) == <<"md5", c.pdf, c.size>>

\* f"HTTP {response.status_code if response else 'Blocked'}"
HttpError(resp) ==
    CASE resp.kind = "none" -> "HTTP Blocked"
      [] resp.code = 404    -> "HTTP 404"
      [] OTHER              -> "HTTP other"

\* The file the call is about.
CurrentUrl == files[file_i]

\* Where control goes when download_file returns, and when it raises: in a
\* run the exception leaves process_dataset and is caught by the loop of
\* discover_and_process_all, which goes on with the next dataset.
AfterReturn == IF cmd \in {"run", "process"} THEN "dl_ret" ELSE "returned"
AfterRaise  == IF cmd = "run" THEN "next_dataset" ELSE "returned"

\* The steps inside a call of download_file, after its entry.
DownloadPcs == {"dl_open", "dl_stream", "dl_verify", "dl_finalize"}

\* A call that process_dataset made has ended, by a return or an exception.
CallEnds ==
    unsaved' = IF cmd \in {"run", "process"} /\ pc' \notin DownloadPcs
               THEN unsaved + 1 ELSE unsaved

\* An entry check that never takes the early return.
AlreadyDownloaded_Never(meta) == FALSE

\* "Check if already downloaded"
AlreadyDownloaded(meta) ==
    /\ meta.status = "success"
    /\ meta.download_path # NoPath
    /\ meta.download_path \in DOMAIN raw

\* status = FAILED with last_error, total_failed += 1
MarkFailed(c, u, error) ==
    [c EXCEPT !.files[u].last_error = error,
              !.files[u].status = "failed",
              !.total_failed = @ + 1]

\* "Check local directory": the record after the lines the call executed;
\* when _calculate_checksum raises the lines after it are not reached.
VerifiedInPlace(c, u, local, raised) ==
    IF raised
    THEN [c EXCEPT !.files[u].status = "success",
                   !.files[u].download_path = local,
                   !.files[u].file_size = raw[local].size]
    ELSE [c EXCEPT !.files[u].status = "success",
                   !.files[u].download_path = local,
                   !.files[u].file_size = raw[local].size,
                   !.files[u].checksum = Checksum(raw[local]),
                   !.files[u].downloaded_at = "now",
                   !.total_skipped = @ + 1]

\* A preparation that does not count the attempt.
Started_NoAttempt(c, u) == [c EXCEPT !.files[u].last_checked = "now"]

\* "Prepare download": download_attempts += 1, last_checked = now
Started(c, u) ==
    [c EXCEPT !.files[u].download_attempts = @ + 1,
              !.files[u].last_checked = "now"]

\* From the entry of download_file to the response of the request.
DlCheck ==
    /\ pc = "dl_check"
    /\ LET u     == CurrentUrl
           meta  == cache.files[u]
           local == LocalFile(meta)
       IN IF AlreadyDownloaded(meta)
          THEN /\ pc' = AfterReturn
               /\ dl_result' = "skipped"
               /\ last_request' = NoRequest /\ slept' = 0
               /\ UNCHANGED <<cache, response>>
          ELSE IF local \in DOMAIN raw /\ VerifyPdf(raw[local])
          THEN /\ \E raised \in BOOLEAN :
                    /\ cache' = VerifiedInPlace(cache, u, local, raised)
                    /\ dl_result' = IF raised THEN "raised" ELSE "skipped"
                    /\ pc' = IF raised THEN AfterRaise ELSE AfterReturn
               /\ last_request' = NoRequest /\ slept' = 0
               /\ UNCHANGED response
          ELSE /\ \E net \in DownloadNet :
                    LET resp    == MakeRequest(net)
                        started == Started(cache, u)
                    IN IF resp.kind = "none" \/ resp.code # 200
                       THEN /\ cache' = MarkFailed(started, u, HttpError(resp))
                            /\ dl_result' = "failed"
                            /\ pc' = AfterReturn
                            /\ response' = NoResponse
                       ELSE /\ cache' = started
                            /\ dl_result' = "none"
                            /\ pc' = "dl_open"
                            /\ response' = resp
               /\ last_request' = FileRequest(u)
               /\ slept' \in RespectfulDelay(MinDelay, MaxDelay)
    /\ CallEnds
    /\ UNCHANGED <<remote, disk, ret, cmd, download, discoverer, walker,
                   file_i, ds_i, prev_exit, last_saved, runs>>

\* with open(temp_path, 'wb') as f
DlOpen ==
    /\ pc = "dl_open"
    /\ temp' = Put(temp, LocalFile(cache.files[CurrentUrl]), Prefix(response.body, 0))
    /\ pc' = "dl_stream"
    /\ last_request' = NoRequest /\ slept' = 0
    /\ UNCHANGED <<remote, cache_file, backup_cache_file, raw, ret, cmd,
                   download, cache, discoverer, walker, downloader, process>>

\* One chunk of response.iter_content(chunk_size=8192) written, or the
\* exception of a broken stream: "except Exception" marks the record failed
\* and unlinks the .tmp file.
DlStream ==
    /\ pc = "dl_stream"
    /\ LET u       == CurrentUrl
           local   == LocalFile(cache.files[u])
           written == temp[local].size
           size    == IF written + ChunkSize < response.body.size
                      THEN written + ChunkSize ELSE response.body.size
       IN \/ /\ temp' = Put(temp, local, Prefix(response.body, size))
             /\ pc' = IF size = response.body.size THEN "dl_verify" ELSE "dl_stream"
             /\ UNCHANGED <<cache, dl_result>>
          \/ /\ cache' = MarkFailed(cache, u, "stream error")
             /\ temp' = Drop(temp, {local})
             /\ dl_result' = "failed"
             /\ pc' = AfterReturn
    /\ last_request' = NoRequest /\ slept' = 0
    /\ UNCHANGED <<remote, cache_file, backup_cache_file, raw, ret, cmd,
                   download, discoverer, walker, file_i, response, ds_i,
                   prev_exit, last_saved, runs>>
    /\ CallEnds

\* "Verify": a bad header or a short file unlinks the .tmp file and marks
\* the record failed; otherwise temp_path.rename(final_path).
DlVerify ==
    /\ pc = "dl_verify"
    /\ LET u     == CurrentUrl
           local == LocalFile(cache.files[u])
       IN IF ~VerifyPdf(temp[local])
          THEN /\ temp' = Drop(temp, {local})
               /\ cache' = MarkFailed(cache, u, "Invalid PDF")
               /\ dl_result' = "failed"
               /\ pc' = AfterReturn
               /\ UNCHANGED raw
          ELSE IF TooSmall(temp[local].size)
          THEN /\ temp' = Drop(temp, {local})
               /\ cache' = MarkFailed(cache, u, "File too small")
               /\ dl_result' = "failed"
               /\ pc' = AfterReturn
               /\ UNCHANGED raw
          ELSE /\ raw' = Put(raw, local, temp[local])
               /\ temp' = Drop(temp, {local})
               /\ pc' = "dl_finalize"
               /\ UNCHANGED <<cache, dl_result>>
    /\ last_request' = NoRequest /\ slept' = 0
    /\ UNCHANGED <<remote, cache_file, backup_cache_file, ret, cmd, download,
                   discoverer, walker, file_i, response, ds_i, prev_exit,
                   last_saved, runs>>
    /\ CallEnds

\* "Finalize" after the rename: the record's update; when
\* _calculate_checksum raises, "except Exception" marks the record failed.
DlFinalize ==
    /\ pc = "dl_finalize"
    /\ LET u     == CurrentUrl
           local == LocalFile(cache.files[u])
           half  == [cache EXCEPT !.files[u].status = "success",
                                  !.files[u].download_path = local,
                                  !.files[u].file_size = raw[local].size]
       IN \/ /\ cache' = [half EXCEPT
                             !.files[u].checksum = Checksum(raw[local]),
                             !.files[u].downloaded_at = "now",
                             !.files[u].last_error = "None",
                             !.total_downloaded = @ + 1]
             /\ dl_result' = "downloaded"
          \/ /\ cache' = MarkFailed(half, u, "checksum error")
             /\ dl_result' = "failed"
    /\ pc' = AfterReturn
    /\ last_request' = NoRequest /\ slept' = 0
    /\ CallEnds
    /\ UNCHANGED <<remote, disk, ret, cmd, download, discoverer, walker,
                   file_i, response, ds_i, prev_exit, last_saved, runs>>

DownloadFile == DlCheck \/ DlOpen \/ DlStream \/ DlVerify \/ DlFinalize

(***************************************************************************)
(* discover_all_datasets(start_from, max_consecutive_failures) called on a *)
(* fresh archiver, against a server that answers freely.                    *)
(***************************************************************************)
StartIds == {1, 7}

InitDiscover ==
    /\ \/ remote = 0 /\ threshold \in 1..MaxThreshold
       \/ remote \in DiscoverLayouts /\ threshold = DefaultMaxConsecutiveFailures
    /\ cache_file = AbsentDoc /\ backup_cache_file = AbsentDoc
    /\ raw = NoContent /\ temp = NoContent
    /\ pc = "probe" /\ ret = "returned" /\ cmd = "discover" /\ download = FALSE
    /\ cache = CacheState
    /\ existing_datasets = <<>>
    /\ consecutive_failures = 0
    /\ current_dataset \in StartIds
    /\ probe_log = <<>>
    /\ WalkerIdle /\ DownloaderIdle /\ NoHistory

NextDiscover == DiscoverProbe \/ DiscoverReturn \/ SaveCache

SpecDiscover == InitDiscover /\ [][NextDiscover]_vars

\* The iterations of the same while loop past the last id the model tells
\* apart.  The loop has no condition but consecutive_failures <
\* max_consecutive_failures, so it goes on as before; what is found there is
\* not told apart from the horizon (current_dataset, the list and the
\* watermark stay), and "current_dataset % 10 == 0" holds for some of the
\* ids and not for others.
DiscoverProbeBeyond ==
    /\ pc = "probe" /\ cmd = "discover"
    /\ consecutive_failures < threshold
    /\ remote = 0 /\ Len(probe_log) = MaxProbes
    /\ \E net \in ProbeNet(current_dataset) :
         consecutive_failures' =
             FailuresAfter(MakeRequest(net), consecutive_failures)
    /\ \E tenth \in BOOLEAN :
         IF tenth
         THEN pc' = "save_backup" /\ ret' = "probe"
         ELSE pc' = "probe" /\ ret' = ret
    /\ last_request' = ProbeRequest(current_dataset)
    /\ slept' \in RespectfulDelay(MinDelay, MaxDelay)
    /\ UNCHANGED <<remote, disk, cmd, download, cache, threshold,
                   existing_datasets, current_dataset, probe_log, walker,
                   downloader, process>>

NextDiscoverOn == NextDiscover \/ DiscoverProbeBeyond

\* discover_all_datasets(1, max_consecutive_failures) with a threshold of 1
\* or 2, against the server that answers freely.
InitDiscoverOn ==
    InitDiscover /\ remote = 0 /\ current_dataset = 1 /\ threshold \in {1, 2}

\* The process is not stopped from outside: it always takes its next step.
SpecDiscoverOn ==
    InitDiscoverOn /\ [][NextDiscoverOn]_vars /\ WF_vars(NextDiscoverOn)

(***************************************************************************)
(* discover_dataset_pages(dataset_num, max_pages) called on an archiver    *)
(* whose cache knows none, some or all of the files, against a server     *)
(* that answers freely.                                                     *)
(***************************************************************************)
DiscovererIdle ==
    /\ threshold = DefaultMaxConsecutiveFailures
    /\ existing_datasets = <<>> /\ consecutive_failures = 0
    /\ current_dataset = 0 /\ probe_log = <<>>

\* A cache that discovered the files of S in dataset 1 and nothing else.
CacheKnowing(S) ==
    [CacheState EXCEPT !.files = [u \in S |-> FileMetadata(u, 1)],
                       !.total_discovered = Cardinality(S),
                       !.datasets_scanned = IF S = {} THEN {} ELSE {1},
                       !.max_dataset_found = IF S = {} THEN 0 ELSE 1]

\* The record of u1 after a download that stored content c.
Downloaded(c) ==
    [FileMetadata("u1", 1) EXCEPT
        !.last_checked = "now", !.status = "success",
        !.download_path = <<1, "a.pdf">>, !.file_size = c.size,
        !.checksum = Checksum(c), !.download_attempts = 1,
        !.downloaded_at = "now"]

\* The record of u1 after a download that was refused.
Refused ==
    [FileMetadata("u1", 1) EXCEPT
        !.last_checked = "now", !.status = "failed",
        !.download_attempts = 1, !.last_error = "HTTP Blocked"]

\* A cache that some time ago downloaded u1 and was refused u3.
CacheWorked ==
    [CacheKnowing({"u1", "u3"}) EXCEPT
        !.files["u1"] = [Downloaded(GoodBody) EXCEPT !.last_checked = "earlier"],
        !.files["u3"] = [Refused EXCEPT !.url = "u3", !.filename = FileName("u3"),
                                        !.last_checked = "earlier"],
        !.total_downloaded = 1, !.total_failed = 1]

InitWalk ==
    /\ remote = 0
    /\ backup_cache_file = AbsentDoc
    /\ temp = NoContent
    /\ pc = "walk" /\ ret = "returned" /\ cmd = "walk" /\ download = FALSE
    /\ cache \in {CacheKnowing({}), CacheKnowing(Urls), CacheWorked}
    /\ cache_file = IF cache = CacheWorked THEN JsonDump(cache) ELSE AbsentDoc
    /\ raw = IF cache = CacheWorked
             THEN [p \in {<<1, "a.pdf">>} |-> GoodBody]
             ELSE NoContent
    /\ DiscovererIdle
    /\ dataset_num = 1 /\ max_pages = MaxPagesArg /\ page = 0
    /\ consecutive_empty_pages = 0
    /\ all_files = <<>> /\ files = <<>> /\ page_log = <<>>
    /\ DownloaderIdle /\ NoHistory

NextWalk == WalkPage \/ WalkMerge \/ SaveCache

SpecWalk == InitWalk /\ [][NextWalk]_vars

(***************************************************************************)
(* A direct call of download_file(file_meta) on one record of the cache,   *)
(* in the states a record and its directory can be in: just discovered,    *)
(* failed before, or downloaded with its file in place; a .tmp file of a   *)
(* killed download may lie beside it.  A file that lies under the record's *)
(* name without a download of the record having stored it may be shorter   *)
(* than any file a download stores.                                         *)
(***************************************************************************)
InitDownload ==
    /\ remote = 0
    /\ cache_file = AbsentDoc /\ backup_cache_file = AbsentDoc
    /\ temp \in {NoContent, [p \in {<<1, "a.pdf">>} |-> Prefix(GoodBody, ChunkSize)]}
    /\ \/ /\ raw = NoContent
          /\ \/ cache = CacheKnowing({"u1"})
             \/ cache = [CacheKnowing({"u1"}) EXCEPT
                            !.files["u1"] = Refused, !.total_failed = 1]
       \/ /\ \E c \in {GoodBody, MinBody, SmallBody} :
               /\ raw = [p \in {<<1, "a.pdf">>} |-> c]
               /\ \/ cache = CacheKnowing({"u1"})
                  \/ /\ ~TooSmall(c.size)
                     /\ cache = [CacheKnowing({"u1"}) EXCEPT
                                    !.files["u1"] = Downloaded(c),
                                    !.total_downloaded = 1]
    /\ pc = "dl_check" /\ ret = "returned" /\ cmd = "download" /\ download = TRUE
    /\ DiscovererIdle
    /\ dataset_num = 1 /\ max_pages = 0 /\ page = 0
    /\ consecutive_empty_pages = 0
    /\ all_files = <<>> /\ files = <<"u1">> /\ page_log = <<>>
    /\ file_i = 1 /\ response = NoResponse /\ dl_result = "none"
    /\ NoHistory

\* download_file is called once more on the same record.
CallAgain ==
    /\ pc = "returned" /\ cmd = "download"
    /\ cache.files[CurrentUrl].download_attempts < MaxAttempts
    /\ pc' = "dl_check"
    /\ response' = NoResponse /\ dl_result' = "none"
    /\ last_request' = NoRequest /\ slept' = 0
    /\ UNCHANGED <<remote, disk, ret, cmd, download, cache, discoverer, walker,
                   file_i, process>>

NextDownload == DownloadFile \/ CallAgain

SpecDownload == InitDownload /\ [][NextDownload]_vars

(***************************************************************************)
(* The processes of main(): --discover-all [--discover-only], --cleanup-all *)
(* and --stats.  Each constructs the archiver, which loads the cache.       *)
(***************************************************************************)
\* The memory of a process that does not exist.
MemoryOff ==
    /\ ret' = "off" /\ cmd' = "none" /\ download' = FALSE
    /\ cache' = CacheState
    /\ threshold' = DefaultMaxConsecutiveFailures
    /\ existing_datasets' = <<>> /\ consecutive_failures' = 0
    /\ current_dataset' = 0 /\ probe_log' = <<>>
    /\ dataset_num' = 0 /\ max_pages' = 0 /\ page' = 0
    /\ consecutive_empty_pages' = 0
    /\ all_files' = <<>> /\ files' = <<>> /\ page_log' = <<>>
    /\ ds_i' = 0 /\ file_i' = 0 /\ response' = NoResponse /\ dl_result' = "none"
    /\ last_request' = NoRequest /\ slept' = 0
    /\ unsaved' = 0

\* archiver = UnlimitedEpsteinArchiver(); archiver.discover_and_process_all(
\* start_dataset=1, download=not args.discover_only)
StartRun ==
    /\ pc = "off"
    /\ runs < MaxRuns
    /\ runs' = runs + 1
    /\ cache' = LoadCache(cache_file)
    /\ cmd' = "run"
    /\ download' \in BOOLEAN
    /\ current_dataset' = 1
    /\ pc' = "probe"
    /\ UNCHANGED <<remote, disk, ret, threshold, existing_datasets,
                   consecutive_failures, probe_log, walker, downloader, ds_i,
                   last_request, slept, prev_exit, last_saved, unsaved>>

\* "for i, dataset_num in enumerate(all_datasets, 1)": process_dataset begins
\* with discover_dataset_pages(dataset_num); after the last dataset, the summary.
NextDataset ==
    /\ pc = "next_dataset"
    /\ IF ds_i < Len(existing_datasets)
       THEN /\ ds_i' = ds_i + 1
            /\ dataset_num' = existing_datasets[ds_i + 1]
            /\ max_pages' = DefaultMaxPages
            /\ page' = 0 /\ consecutive_empty_pages' = 0
            /\ all_files' = <<>> /\ files' = <<>> /\ page_log' = <<>>
            /\ file_i' = 0 /\ response' = NoResponse /\ dl_result' = "none"
            /\ pc' = "walk"
       ELSE /\ pc' = "summary"
            /\ UNCHANGED <<ds_i, walker, downloader>>
    /\ last_request' = NoRequest /\ slept' = 0
    /\ UNCHANGED <<remote, disk, ret, cmd, download, cache, discoverer,
                   prev_exit, last_saved, unsaved, runs>>

\* A process_dataset that enters the download loop whatever "download" is.
AfterWalk_AlwaysDownloads ==
    /\ pc = "after_walk"
    /\ IF files = <<>>
       THEN pc' = "next_dataset" /\ UNCHANGED <<ret, file_i>>
       ELSE pc' = "dl_check" /\ file_i' = 1 /\ ret' = ret
    /\ last_request' = NoRequest /\ slept' = 0
    /\ UNCHANGED <<remote, disk, cmd, download, cache, discoverer, walker,
                   response, dl_result, process>>

\* process_dataset after the walk: nothing new, the download loop, or (with
\* download off) the metadata and the save.
AfterWalk ==
    /\ pc = "after_walk"
    /\ IF files = <<>>
       THEN pc' = "next_dataset" /\ UNCHANGED <<ret, file_i>>
       ELSE IF download
       THEN pc' = "dl_check" /\ file_i' = 1 /\ ret' = ret
       ELSE pc' = "save_backup" /\ ret' = "next_dataset" /\ file_i' = file_i
    /\ last_request' = NoRequest /\ slept' = 0
    /\ UNCHANGED <<remote, disk, cmd, download, cache, discoverer, walker,
                   response, dl_result, process>>

\* A loop that saves after the last file only.
DlReturn_LastOnly ==
    /\ pc = "dl_ret"
    /\ IF file_i = Len(files)
       THEN pc' = "save_backup" /\ ret' = "dl_next"
       ELSE pc' = "dl_next" /\ ret' = ret
    /\ response' = NoResponse
    /\ last_request' = NoRequest /\ slept' = 0
    /\ UNCHANGED <<remote, disk, cmd, download, cache, discoverer, walker,
                   file_i, dl_result, process>>

\* "if i % 10 == 0 or i == len(files): self._save_cache()"
DlReturn ==
    /\ pc = "dl_ret"
    /\ IF file_i % SaveEvery = 0 \/ file_i = Len(files)
       THEN pc' = "save_backup" /\ ret' = "dl_next"
       ELSE pc' = "dl_next" /\ ret' = ret
    /\ response' = NoResponse
    /\ last_request' = NoRequest /\ slept' = 0
    /\ UNCHANGED <<remote, disk, cmd, download, cache, discoverer, walker,
                   file_i, dl_result, process>>

\* A loop that calls download_file once more on a file that just failed.
DlNext_FailedFileAgain ==
    /\ pc = "dl_next"
    /\ IF dl_result = "failed" \/ file_i < Len(files)
       THEN /\ pc' = "dl_check" /\ ret' = ret
            /\ file_i' = IF dl_result = "failed" THEN file_i ELSE file_i + 1
       ELSE pc' = "save_backup" /\ ret' = "next_dataset" /\ file_i' = file_i
    /\ dl_result' = "none"
    /\ last_request' = NoRequest /\ slept' = 0
    /\ UNCHANGED <<remote, disk, cmd, download, cache, discoverer, walker,
                   response, process>>

\* The next file of the loop, or after the last one the metadata and
\* self._save_cache() that end process_dataset.
DlNext ==
    /\ pc = "dl_next"
    /\ IF file_i < Len(files)
       THEN pc' = "dl_check" /\ file_i' = file_i + 1 /\ ret' = ret
       ELSE pc' = "save_backup" /\ ret' = "next_dataset" /\ file_i' = file_i
    /\ dl_result' = "none"
    /\ last_request' = NoRequest /\ slept' = 0
    /\ UNCHANGED <<remote, disk, cmd, download, cache, discoverer, walker,
                   response, process>>

\* The summary is logged and written to the metadata directory; main returns.
RunExit ==
    /\ pc = "summary"
    /\ pc' = "off"
    /\ prev_exit' = [how |-> "complete", phase |-> "none", url |-> "none",
                     urls |-> DOMAIN cache.files]
    /\ MemoryOff
    /\ UNCHANGED <<remote, disk, last_saved, runs>>

\* How far the download of the killed process had come.
Phase(at) ==
    CASE at = "dl_open"               -> "request"
      [] at \in {"dl_stream", "dl_verify"} -> "write"
      [] at = "dl_finalize"           -> "renamed"
      [] OTHER                        -> "none"

\* The process is killed: the memory is lost, the disk stays as it is.
Kill ==
    /\ pc \notin {"off"}
    /\ pc' = "off"
    /\ prev_exit' = [how |-> "killed", phase |-> Phase(pc),
                     url |-> IF pc \in DownloadPcs THEN CurrentUrl ELSE "none",
                     urls |-> {}]
    /\ MemoryOff
    /\ UNCHANGED <<remote, disk, last_saved, runs>>

(***************************************************************************)
(* cleanup_all, one removed file at a time, and get_statistics.             *)
(***************************************************************************)
\* --cleanup-all: the prompt is answered y or not.
StartCleanup ==
    /\ pc = "off"
    /\ runs < MaxRuns
    /\ runs' = runs + 1
    /\ cache' = LoadCache(cache_file)
    /\ cmd' = "cleanup"
    /\ \E confirm \in BOOLEAN : pc' = IF confirm THEN "cl_remove" ELSE "exit"
    /\ UNCHANGED <<remote, disk, ret, download, discoverer, walker, downloader,
                   ds_i, last_request, slept, prev_exit, last_saved, unsaved>>

\* item.unlink() for one item of a dataset directory
CleanupRemove ==
    /\ pc = "cl_remove"
    /\ \/ \E p \in DOMAIN raw : raw' = Drop(raw, {p}) /\ temp' = temp
       \/ \E p \in DOMAIN temp : temp' = Drop(temp, {p}) /\ raw' = raw
    /\ last_request' = NoRequest /\ slept' = 0
    /\ UNCHANGED <<remote, cache_file, backup_cache_file, pc, ret, cmd,
                   download, cache, discoverer, walker, downloader, process>>

\* A reset that forgets the files and keeps the rest.
Cleared_FilesOnly(c) == [c EXCEPT !.files = NoFiles]

\* "Clear cache": files.clear(), datasets_scanned.clear(), the watermark and
\* the four counters set to 0.
Cleared(c) ==
    [c EXCEPT !.files = NoFiles, !.datasets_scanned = {},
              !.max_dataset_found = 0, !.total_discovered = 0,
              !.total_downloaded = 0, !.total_failed = 0, !.total_skipped = 0]

\* "Clear cache" and self._save_cache()
CleanupClear ==
    /\ pc = "cl_remove"
    /\ DOMAIN raw = {} /\ DOMAIN temp = {}
    /\ cache' = Cleared(cache)
    /\ pc' = "save_backup" /\ ret' = "exit"
    /\ last_request' = NoRequest /\ slept' = 0
    /\ UNCHANGED <<remote, disk, cmd, download, discoverer, walker, downloader,
                   process>>

\* A --stats that saves the cache it loaded before it returns.
StartStats_Saving ==
    /\ pc = "off"
    /\ runs < MaxRuns
    /\ runs' = runs + 1
    /\ cache' = LoadCache(cache_file)
    /\ cmd' = "stats"
    /\ pc' = "save_backup" /\ ret' = "exit"
    /\ UNCHANGED <<remote, disk, download, discoverer, walker, downloader,
                   ds_i, last_request, slept, prev_exit, last_saved, unsaved>>

\* --stats: get_statistics reads the directories and the loaded cache.
StartStats ==
    /\ pc = "off"
    /\ runs < MaxRuns
    /\ runs' = runs + 1
    /\ cache' = LoadCache(cache_file)
    /\ cmd' = "stats"
    /\ pc' = "exit"
    /\ UNCHANGED <<remote, disk, ret, download, discoverer, walker, downloader,
                   ds_i, last_request, slept, prev_exit, last_saved, unsaved>>

\* main returns after --cleanup-all or --stats.
CommandExit ==
    /\ pc = "exit"
    /\ pc' = "off"
    /\ prev_exit' = [how |-> cmd, phase |-> "none", url |-> "none", urls |-> {}]
    /\ MemoryOff
    /\ UNCHANGED <<remote, disk, last_saved, runs>>

(***************************************************************************)
(* The system: a fresh installation, one process after the other.           *)
(***************************************************************************)
Init ==
    /\ remote \in Layouts
    /\ cache_file = AbsentDoc /\ backup_cache_file = AbsentDoc
    /\ raw = NoContent /\ temp = NoContent
    /\ pc = "off" /\ ret = "off" /\ cmd = "none" /\ download = FALSE
    /\ cache = CacheState
    /\ DiscovererIdle /\ WalkerIdle /\ DownloaderIdle /\ NoHistory

Next ==
    \/ StartRun \/ DiscoverProbe \/ DiscoverReturn \/ NextDataset
    \/ WalkPage \/ WalkMerge \/ AfterWalk
    \/ DownloadFile \/ DlReturn \/ DlNext \/ RunExit
    \/ SaveCache
    \/ StartCleanup \/ CleanupRemove \/ CleanupClear \/ StartStats \/ CommandExit
    \/ Kill

Spec == Init /\ [][Next]_vars

(***************************************************************************)
(* process_dataset(1, download) called on one archiver, once and again,    *)
(* against the servers of the layouts.                                      *)
(***************************************************************************)
InitProcess ==
    /\ remote \in Layouts
    /\ cache_file = AbsentDoc /\ backup_cache_file = AbsentDoc
    /\ raw = NoContent /\ temp = NoContent
    /\ pc = "walk" /\ ret = "returned" /\ cmd = "process"
    /\ download \in BOOLEAN
    /\ cache = CacheState
    /\ DiscovererIdle
    /\ dataset_num = 1 /\ max_pages = DefaultMaxPages /\ page = 0
    /\ consecutive_empty_pages = 0
    /\ all_files = <<>> /\ files = <<>> /\ page_log = <<>>
    /\ DownloaderIdle
    /\ ds_i = 1 /\ last_request = NoRequest /\ slept = 0
    /\ prev_exit = NoExit /\ last_saved = AbsentDoc /\ unsaved = 0 /\ runs = 0

\* "return results"
ProcessReturn ==
    /\ pc = "next_dataset" /\ cmd = "process"
    /\ pc' = "returned"
    /\ last_request' = NoRequest /\ slept' = 0
    /\ UNCHANGED <<remote, disk, ret, cmd, download, cache, discoverer, walker,
                   downloader, process>>

\* The next call of process_dataset(1, download).
ProcessAgain ==
    /\ pc = "returned" /\ cmd = "process"
    /\ ds_i < MaxCalls
    /\ ds_i' = ds_i + 1
    /\ download' \in BOOLEAN
    /\ page' = 0 /\ consecutive_empty_pages' = 0
    /\ all_files' = <<>> /\ files' = <<>> /\ page_log' = <<>>
    /\ file_i' = 0 /\ response' = NoResponse /\ dl_result' = "none"
    /\ pc' = "walk"
    /\ last_request' = NoRequest /\ slept' = 0
    /\ UNCHANGED <<remote, disk, ret, cmd, cache, discoverer, dataset_num,
                   max_pages, prev_exit, last_saved, unsaved, runs>>

NextProcess ==
    \/ WalkPage \/ WalkMerge \/ SaveCache \/ AfterWalk
    \/ DownloadFile \/ DlReturn \/ DlNext
    \/ ProcessReturn \/ ProcessAgain

SpecProcess == InitProcess /\ [][NextProcess]_vars

(***************************************************************************)
(* process_dataset(1, download=True) called on a fresh archiver against    *)
(* the batch layout: one page of files, more than SaveEvery of them.       *)
(***************************************************************************)
InitBatch ==
    /\ remote = BatchLayout
    /\ cache_file = AbsentDoc /\ backup_cache_file = AbsentDoc
    /\ raw = NoContent /\ temp = NoContent
    /\ pc = "walk" /\ ret = "returned" /\ cmd = "process"
    /\ download = TRUE
    /\ cache = CacheState
    /\ DiscovererIdle
    /\ dataset_num = 1 /\ max_pages = DefaultMaxPages /\ page = 0
    /\ consecutive_empty_pages = 0
    /\ all_files = <<>> /\ files = <<>> /\ page_log = <<>>
    /\ DownloaderIdle
    /\ ds_i = 1 /\ last_request = NoRequest /\ slept = 0
    /\ prev_exit = NoExit /\ last_saved = AbsentDoc /\ unsaved = 0 /\ runs = 0

SpecBatch == InitBatch /\ [][NextProcess]_vars

(***************************************************************************)
(* The same system started on a cache file that something else wrote or    *)
(* damaged: cut short, not JSON, JSON with a status that is no member of   *)
(* DownloadStatus, or a document an earlier discovery saved.               *)
(***************************************************************************)
\* A JSON document whose record of u1 has the status "done".
BadStatusDoc ==
    JsonDoc([CacheKnowing({"u1"}) EXCEPT !.files["u1"].status = "done"])

\* The document a discovery that found dataset 1 saves.
DiscoveredDoc == JsonDoc([CacheState EXCEPT !.max_dataset_found = 1])

FoundDocs == {TruncatedDoc, GarbageDoc, BadStatusDoc, DiscoveredDoc}

InitCorrupt ==
    /\ remote \in Layouts
    /\ cache_file \in FoundDocs /\ backup_cache_file = AbsentDoc
    /\ raw = NoContent /\ temp = NoContent
    /\ pc = "off" /\ ret = "off" /\ cmd = "none" /\ download = FALSE
    /\ cache = CacheState
    /\ DiscovererIdle /\ WalkerIdle /\ DownloaderIdle /\ NoHistory

SpecCorrupt == InitCorrupt /\ [][Next]_vars

(***************************************************************************)
(* Claims.                                                                  *)
(***************************************************************************)
\* The records of a cache state with the given status.
WithStatus(c, st) == {u \in DOMAIN c.files : c.files[u].status = st}

\* C1: every record whose status is Success has a local path and a checksum,
\* and the file at that path exists on disk.
C1_SuccessHasPathChecksumAndFile ==
    \A u \in WithStatus(cache, "success") :
        /\ cache.files[u].download_path # NoPath
        /\ cache.files[u].checksum # NoChecksum
        /\ cache.files[u].download_path \in DOMAIN raw

\* C2: the four counters are the numbers of records, of Success records, of
\* Failed records and of Skipped records.
C2_CountersAreSumsByStatus ==
    /\ cache.total_discovered = Cardinality(DOMAIN cache.files)
    /\ cache.total_downloaded = Cardinality(WithStatus(cache, "success"))
    /\ cache.total_failed = Cardinality(WithStatus(cache, "failed"))
    /\ cache.total_skipped = Cardinality(WithStatus(cache, "skipped"))

\* C3: in a run that follows a completed run, every page walk returns the
\* empty list and the run ends with the set of URLs the first run ended with.
C3_SecondRunAddsNoRecord ==
    (cmd = "run" /\ prev_exit.how = "complete") =>
        /\ pc = "after_walk" => files = <<>>
        /\ pc = "summary" => DOMAIN cache.files = prev_exit.urls

\* C4: when a run with download enabled that follows a process killed in the
\* middle of a download has ended, the record of the file that was being
\* downloaded exists and is no longer Pending.
C4_InterruptedFileLeavesPending ==
    (pc = "summary" /\ cmd = "run" /\ download
       /\ prev_exit.how = "killed" /\ prev_exit.url # "none") =>
        /\ prev_exit.url \in DOMAIN cache.files
        /\ cache.files[prev_exit.url].status # "pending"

\* The call of download_file has ended (in a run; called directly).
CallEnded == pc \in {"dl_ret", "returned"} /\ cmd \in {"run", "download"}

\* The record handed to the call is Success and its local path exists.
SuccessOnDisk(u) ==
    /\ u \in DOMAIN cache.files
    /\ cache.files[u].status = "success"
    /\ cache.files[u].download_path \in DOMAIN raw

\* C5: a call of download_file on a Success record whose local path exists
\* issues no request and changes neither the cache (record, counters) nor
\* the disk; and no step requests the URL of such a record.
C5_SuccessOnDiskIsNoOp ==
    [][ /\ (pc = "dl_check" /\ SuccessOnDisk(CurrentUrl)) =>
              /\ last_request' = NoRequest
              /\ cache' = cache
              /\ disk' = disk
              /\ dl_result' = "skipped"
        /\ \A u \in Urls :
              last_request' = FileRequest(u) => ~SuccessOnDisk(u)
      ]_vars

\* The call on a Success record with its file in place has returned.
C5_Witness ==
    /\ pc = "returned" /\ cmd = "download" /\ dl_result = "skipped"
    /\ SuccessOnDisk(CurrentUrl)
    /\ cache.files[CurrentUrl].download_attempts = 1
    /\ cache.total_downloaded = 1 /\ cache.total_skipped = 0

\* C6: after a kill between the start of the .tmp write and the rename, the
\* reloaded state shows the URL as Pending or Failed, and no Success record
\* of it points at a missing file.
C6_CrashBeforeRenameReloadsPendingOrFailed ==
    (pc = "off" /\ prev_exit.how = "killed" /\ prev_exit.phase = "write") =>
        LET st == LoadCache(cache_file)
        IN /\ prev_exit.url \in DOMAIN st.files
           /\ st.files[prev_exit.url].status \in {"pending", "failed"}
           /\ \A v \in WithStatus(st, "success") :
                  st.files[v].download_path \in DOMAIN raw

\* The body the call fetched is shorter than 1024 bytes or does not start
\* with %PDF-.
BadBody(b) == b.size < 1024 \/ ~b.pdf

\* C7: while and after a call fetches a body that is too short or has the
\* wrong signature the record is never Success, and it ends the call Failed.
C7_BadBodyIsNeverPromoted ==
    (pc \in DownloadPcs \cup {"dl_ret", "returned"}
       /\ response.kind = "http" /\ BadBody(response.body)) =>
        /\ cache.files[CurrentUrl].status # "success"
        /\ CallEnded => cache.files[CurrentUrl].status = "failed"

\* A call that fetched a body with the signature, one byte short of 1024,
\* has ended.
C7_Witness ==
    /\ pc = "dl_ret"
    /\ response.kind = "http" /\ response.body = SmallBody
    /\ dl_result = "failed"
    /\ cache.files[CurrentUrl].last_error = "File too small"

\* The failures of a call that the claim names: a bad transport outcome, a
\* failed verification, an exception while streaming.
NamedFailures ==
    {"HTTP Blocked", "HTTP 404", "HTTP other", "Invalid PDF", "File too small",
     "stream error"}

\* C8: when a call of download_file has ended in failure neither the .tmp
\* file nor the final file of the record is on disk.
C8_FailureLeavesNoFile ==
    (CallEnded /\ dl_result = "failed"
       /\ cache.files[CurrentUrl].last_error \in NamedFailures) =>
        LET local == LocalFile(cache.files[CurrentUrl])
        IN local \notin DOMAIN temp /\ local \notin DOMAIN raw

\* The probe answered 200.
ProbeOk(e) == e[2].kind = "http" /\ e[2].code = 200

\* The probes j-T+1 .. j of the log all failed.
AllNonOk(log, j, T) == \A i \in (j - T + 1)..j : ~ProbeOk(log[i])

\* The ids of the probes of the log that answered 200, in the log's order.
OkIds(log) ==
    LET oks == SelectSeq(log, ProbeOk)
    IN [i \in 1..Len(oks) |-> oks[i][1]]

DiscoveryReturned ==
    \/ pc = "returned" /\ cmd = "discover"
    \/ pc = "next_dataset"

\* C10: discover_all_datasets probes consecutive ids from start_from, never
\* probes again once the last T probes have all failed, returns only when
\* they have, and its list holds exactly the ids that answered 200, ascending.
C10_DiscoveryStopsAfterThresholdFailures ==
    LET n == Len(probe_log)
    IN /\ \A i \in 1..n : probe_log[i][1] = probe_log[1][1] + (i - 1)
       /\ \A j \in threshold..(n - 1) : ~AllNonOk(probe_log, j, threshold)
       /\ existing_datasets = OkIds(probe_log)
       /\ \A i, j \in 1..Len(existing_datasets) :
              i < j => existing_datasets[i] < existing_datasets[j]
       /\ DiscoveryReturned =>
              n >= threshold /\ AllNonOk(probe_log, n, threshold)

\* Datasets 1-3 answer 200 and every later id 404: with the default threshold
\* of 10 the call returns [1, 2, 3] after probing 13 and never probes 14.
C10_Witness ==
    /\ DiscoveryReturned
    /\ threshold = DefaultMaxConsecutiveFailures
    /\ existing_datasets = <<1, 2, 3>>
    /\ Len(probe_log) = 13
    /\ current_dataset = 14

\* The page answered 200 and the extractor found no link on it.
OkEmpty(e) == e[2].kind = "http" /\ e[2].code = 200 /\ e[2].links = <<>>

\* The pages j-2, j-1 and j of the log all answered 200 with no link.
ThreeEmpty(log, j) == j >= 3 /\ \A i \in (j - 2)..j : OkEmpty(log[i])

\* C9: the walk requests the pages 0, 1, 2, ... in order; once three
\* consecutive pages have answered 200 with no link it requests no further
\* page (no request follows such a triple, and none is possible after it).
C9_WalkStopsAfterThreeEmptyPages ==
    LET n == Len(page_log)
    IN /\ \A i \in 1..n : page_log[i][1] = i - 1
       /\ \A j \in 1..(n - 1) : ~ThreeEmpty(page_log, j)
       /\ ThreeEmpty(page_log, n) => ~ENABLED WalkPage

\* non-empty, non-empty, empty, empty, empty: the walk is over after five
\* requests although the ceiling allows a sixth.
C9_Witness ==
    /\ pc = "returned" /\ cmd = "walk"
    /\ Len(page_log) = 5 /\ max_pages > 5
    /\ ThreeEmpty(page_log, 5)
    /\ page_log[1][2].links # <<>> /\ page_log[2][2].links # <<>>

\* The file exists and json.load or from_dict raises on it.
Unparseable(doc) ==
    \/ doc.kind \in {"truncated", "garbage"}
    \/ /\ doc.kind = "json"
       /\ \E u \in DOMAIN doc.data.files :
              doc.data.files[u].status \notin
                  {"pending", "success", "failed", "skipped"}

C12_DiscoveryTerminates == <>(pc = "returned")

\* Two cache states agree in what a save has to keep.
SameState(a, b) ==
    /\ DOMAIN a.files = DOMAIN b.files
    /\ \A u \in DOMAIN a.files \cap DOMAIN b.files :
          /\ a.files[u].status = b.files[u].status
          /\ a.files[u].download_path = b.files[u].download_path
          /\ a.files[u].checksum = b.files[u].checksum
          /\ a.files[u].download_attempts = b.files[u].download_attempts
          /\ a.files[u].last_error = b.files[u].last_error
    /\ a.datasets_scanned = b.datasets_scanned
    /\ a.max_dataset_found = b.max_dataset_found
    /\ a.total_discovered = b.total_discovered
    /\ a.total_downloaded = b.total_downloaded
    /\ a.total_failed = b.total_failed
    /\ a.total_skipped = b.total_skipped

\* C13: when the save that ends a page walk has returned, the cache file
\* is a complete document and loading it gives the state that was saved.
C13_SaveLoadRoundTrip ==
    pc = "after_walk" =>
        /\ cache_file.kind = "json"
        /\ SameState(LoadCache(cache_file), cache)

\* The process is discovering datasets, walking pages or downloading.
AtWork ==
    pc \in {"probe", "walk", "merge", "dl_check", "dl_ret", "dl_next"}
              \cup DownloadPcs

\* C14: when the process is interrupted while it discovers, walks or
\* downloads, the state it had in memory is saved before it exits: the cache
\* file then loads to that state.
C14_InterruptSavesState ==
    [][ (AtWork /\ pc' = "off" /\ prev_exit'.how = "killed") =>
            SameState(LoadCache(cache_file'), cache)
      ]_vars

\* C15: when process_dataset(d, download=True) has returned, the downloader
\* was invoked on every record of dataset d that was Pending or Failed, those
\* an earlier discovery added included: none of them is still Pending.
C15_DownloadCoversPendingRecords ==
    (pc = "returned" /\ cmd = "process" /\ download /\ dl_result # "raised") =>
        \A u \in WithStatus(cache, "pending") :
            cache.files[u].dataset # dataset_num

\* C16: every step that issues a request, be it a dataset probe, a page
\* request or a file request, sleeps at least the minimum delay before it;
\* a step that sleeps issues a request.
C16_EveryRequestIsDelayed ==
    [][ /\ last_request' # NoRequest =>
              slept' >= MinDelay /\ slept' <= MaxDelay
        /\ last_request' = NoRequest => slept' = 0
      ]_vars

\* The file request of a download was sent after the longest delay.
C16_Witness ==
    /\ cmd = "run" /\ pc = "dl_open"
    /\ last_request = FileRequest("u1")
    /\ slept = MaxDelay

\* What happened to a request: the server refused it with 403, it timed
\* out, another network error, or the server answered.
Situation(net) ==
    CASE net.kind = "http" /\ net.code = 403 -> "blocked"
      [] net.kind = "timeout"                -> "timeout"
      [] net.kind = "neterror"               -> "neterror"
      [] OTHER                               -> "answered"

\* C17: two probes of which one was blocked and the other timed out or met
\* a network error (or one timed out and the other met a network error) got
\* different return values from _make_request.
C17_BlockedIsToldApart ==
    \A i, j \in DOMAIN probe_log :
        LET a == probe_log[i][2]
            b == probe_log[j][2]
        IN (/\ Situation(a) # Situation(b)
            /\ Situation(a) # "answered" /\ Situation(b) # "answered") =>
               MakeRequest(a) # MakeRequest(b)

\* The URLs the extractor found on the pages the walk was answered.
ExtractedUrls(log) ==
    UNION {Range(ExtractFileLinks(MakeRequest(log[i][2]).links)) :
               i \in {j \in DOMAIN log : MakeRequest(log[j][2]).code = 200}}

\* C18: the walk returns, each once, exactly the extracted URLs that the
\* cache did not hold before; of a record the cache held it changes nothing
\* but last_checked.
C18_WalkReturnsNewAndRestampsKnown ==
    [][ (pc \in {"walk", "merge"} /\ pc' = "save_backup") =>
            /\ Range(files') = ExtractedUrls(page_log) \ DOMAIN cache.files
            /\ Len(files') = Cardinality(Range(files'))
            /\ \A u \in DOMAIN cache.files :
                  /\ u \in DOMAIN cache'.files
                  /\ cache'.files[u] =
                        [cache.files[u] EXCEPT
                            !.last_checked = cache'.files[u].last_checked]
      ]_vars

\* A walk over a cache that held u1 (downloaded) and u3 (failed) found u1
\* and u2: it returned u2 alone, stamped u1 and left u3 as it was.
C18_Witness ==
    /\ cmd = "walk" /\ pc = "returned"
    /\ files = <<"u2">>
    /\ cache.files["u1"] = [Downloaded(GoodBody) EXCEPT !.last_checked = "now"]
    /\ cache.files["u3"].last_checked = "earlier"
    /\ cache.files["u3"].status = "failed"
    /\ cache.total_discovered = 3

\* The watermark of a cache state is no less than any dataset it scanned.
WatermarkCovers(c) == \A d \in c.datasets_scanned : c.max_dataset_found >= d

\* C19: in every state of the processes of main, the watermark of the cache
\* in memory and of the cache the file loads to covers the scanned datasets.
C19_WatermarkCoversScanned ==
    /\ WatermarkCovers(cache)
    /\ WatermarkCovers(LoadCache(cache_file))
    /\ WatermarkCovers(LoadCache(backup_cache_file))

\* A run has scanned the datasets 1 and 2 it discovered.
C19_Witness ==
    /\ cmd = "run" /\ pc = "summary"
    /\ cache.datasets_scanned = {1, 2}
    /\ cache.max_dataset_found = 2

\* The URLs of the files map: of the cache in memory while a process runs,
\* of the cache the file loads to while none does.
KnownUrls ==
    IF pc = "off"
    THEN DOMAIN LoadCache(cache_file).files
    ELSE DOMAIN cache.files

\* C20: the records a completed run ended with are still there afterwards,
\* on disk and in the next process that is not a cleanup.
C20_NoRecordIsLost ==
    (prev_exit.how = "complete" /\ cmd # "cleanup") =>
        prev_exit.urls \subseteq KnownUrls

\* The steps of _save_cache.
SavePcs == {"save_backup", "save_copy", "save_open", "save_dump"}

\* The file holds a complete document that _load_cache parses.
Parseable(doc) == doc.kind = "json" /\ ~FromDictRaises(doc.data)

\* C21: when the process is killed at any step of a save (while the backup
\* is copied or while the new state is written) and an earlier save had
\* written a whole document, the cache file or the backup file still holds
\* a complete parseable document (every document on this disk was written
\* by a save).
C21_CrashDuringSaveKeepsOneGoodCopy ==
    [][ (pc \in SavePcs /\ pc' = "off" /\ last_saved # AbsentDoc) =>
            Parseable(cache_file') \/ Parseable(backup_cache_file')
      ]_vars

\* C22: when a save returns and an earlier save had written a whole
\* document, the backup file holds the document of the last save that did,
\* also in a process that was started after a save was cut short.
C22_BackupMirrorsPreviousSave ==
    [][ (pc = "save_dump" /\ pc' # "off" /\ last_saved # AbsentDoc) =>
            backup_cache_file' = last_saved
      ]_vars

\* A cache state with no record, no scanned dataset, watermark 0 and the
\* four counters 0.
IsEmpty(c) ==
    /\ DOMAIN c.files = {} /\ c.datasets_scanned = {}
    /\ c.max_dataset_found = 0
    /\ c.total_discovered = 0 /\ c.total_downloaded = 0
    /\ c.total_failed = 0 /\ c.total_skipped = 0

C24_StatsIsReadOnly ==
    [][ (cmd = "stats" \/ cmd' = "stats") =>
            /\ disk' = disk
            /\ last_request' = NoRequest /\ slept' = 0
            /\ pc = "off" => cache' = LoadCache(cache_file)
            /\ (pc # "off" /\ pc' # "off") => cache' = cache
      ]_vars

\* --stats has run on the disk a complete run left: payload files in place
\* and a cache file.
C24_Witness ==
    /\ cmd = "stats" /\ pc = "exit"
    /\ prev_exit.how = "complete"
    /\ DOMAIN raw # {}
    /\ cache_file.kind # "absent"

\* C25: while process_dataset runs with download off no file URL is
\* requested, no payload or .tmp file is written, every record the call adds
\* is Pending with no attempt, and every record that was there keeps its
\* status and its attempts.
C25_DiscoverOnlyDownloadsNothing ==
    [][ (cmd \in {"run", "process"} /\ ~download) =>
            /\ last_request'[1] # "file"
            /\ raw' = raw /\ temp' = temp
            /\ \A u \in DOMAIN cache'.files :
                  IF u \in DOMAIN cache.files
                  THEN /\ cache'.files[u].status = cache.files[u].status
                       /\ cache'.files[u].download_attempts =
                              cache.files[u].download_attempts
                  ELSE /\ cache'.files[u].status = "pending"
                       /\ cache'.files[u].download_attempts = 0
      ]_vars

\* A first call with download off has returned: it added u1 and u2, both
\* Pending and never tried, and the payload directory is empty.
C25_Witness ==
    /\ cmd = "process" /\ pc = "returned" /\ ~download /\ ds_i = 1
    /\ DOMAIN cache.files = {"u1", "u2"}
    /\ \A u \in DOMAIN cache.files :
          cache.files[u].status = "pending"
              /\ cache.files[u].download_attempts = 0
    /\ raw = NoContent /\ temp = NoContent

\* C26: an error stays in its unit.  When process_dataset of a run with
\* download on is over, download_file was called on every file the walk
\* returned, whatever happened to the files before it; and when the run
\* reaches its summary every discovered dataset was processed.
C26_ErrorStaysInItsUnit ==
    /\ (pc = "next_dataset" /\ cmd = "run" /\ download /\ ds_i > 0) =>
           file_i = Len(files)
    /\ (pc = "summary" /\ cmd = "run") => ds_i = Len(existing_datasets)

\* The request ended in a timeout, another network error, or a status
\* other than 200, 403 and 404.
Transient(net) ==
    \/ net.kind \in {"timeout", "neterror"}
    \/ net.kind = "http" /\ net.code \notin {200, 403, 404}

\* C27: a page request that ends in a transient error adds one to the
\* empty-page counter and the walk goes on to the next page (the loop
\* condition then stops it when the counter is 3); it does not leave the
\* loop by itself.
C27_TransientErrorCountsAndContinues ==
    [][ (/\ pc = "walk" /\ Len(page_log') = Len(page_log) + 1
         /\ Transient(page_log'[Len(page_log')][2])) =>
            /\ consecutive_empty_pages' = consecutive_empty_pages + 1
            /\ page' = page + 1
            /\ pc' = "walk"
      ]_vars

\* The page request was answered 403 or 404.
Stops(e) == e[2].kind = "http" /\ e[2].code \in {403, 404}

\* C28: a page answered 403 or 404 is the last page the walk requests: no
\* request follows it in the log, and none is possible after it, whatever
\* the empty-page counter.
C28_BlockedOrNotFoundStopsWalk ==
    LET n == Len(page_log)
    IN /\ \A j \in 1..(n - 1) : ~Stops(page_log[j])
       /\ (n > 0 /\ Stops(page_log[n])) => ~ENABLED WalkPage

\* Files on page 0, an empty page 1, 403 on page 2: the walk has returned
\* with the counter at 1 and three more pages under the ceiling.
C28_Witness ==
    /\ cmd = "walk" /\ pc = "returned"
    /\ Len(page_log) = 3 /\ page_log[3] = <<2, Status(403)>>
    /\ consecutive_empty_pages = 1
    /\ page = 2 /\ max_pages >= 6
    /\ all_files # <<>>

C30_FailedDownloadIsRecorded ==
    [][ (pc \in {"dl_check"} \cup DownloadPcs /\ pc' # "off") =>
            LET u == CurrentUrl
            IN /\ u \in DOMAIN cache'.files
               /\ cache'.files[u].download_attempts =
                      cache.files[u].download_attempts
                          + (IF last_request' = FileRequest(u) THEN 1 ELSE 0)
               /\ last_request' = FileRequest(u) => pc = "dl_check"
               /\ dl_result' = "failed" =>
                      /\ cache'.files[u].status = "failed"
                      /\ cache'.files[u].last_error # "None"
                      /\ pc = "dl_check" => last_request' = FileRequest(u)
      ]_vars

\* The second call on a record, refused the first time, has fetched a body
\* that is no PDF: Failed, "Invalid PDF", two attempts.
C30_Witness ==
    /\ cmd = "download" /\ pc = "returned" /\ dl_result = "failed"
    /\ cache.files["u1"].status = "failed"
    /\ cache.files["u1"].last_error = "Invalid PDF"
    /\ cache.files["u1"].download_attempts = 2
    /\ cache.total_failed = 2

\* The call of download_file finds the record's file in the directory, the
\* record is not Success, and the file has the %PDF- header and the
\* minimum size.
C31_FileInPlace ==
    /\ pc = "dl_check"
    /\ cache.files[CurrentUrl].status # "success"
    /\ LocalFile(cache.files[CurrentUrl]) \in DOMAIN raw
    /\ VerifyPdf(raw[LocalFile(cache.files[CurrentUrl])])
    /\ ~TooSmall(raw[LocalFile(cache.files[CurrentUrl])].size)

\* C31: when the record's file already lies in the dataset directory, the
\* record is not Success and the file passes verification, the call sets
\* the record to Success with download_path, file_size and checksum, and
\* sends no request.
C31_InPlaceSetsSuccessWithoutRequest ==
    [][ C31_FileInPlace =>
            LET u     == CurrentUrl
                local == LocalFile(cache.files[u])
            IN /\ cache'.files[u].status = "success"
               /\ cache'.files[u].download_path = local
               /\ cache'.files[u].file_size = raw[local].size
               /\ cache'.files[u].checksum = Checksum(raw[local])
               /\ last_request' = NoRequest
      ]_vars

\* C32: a record is Success only if the file at its download_path has the
\* %PDF- header and at least the minimum size, whether the file was fetched
\* or was found in the directory and verified in place.
C32_SuccessPassedBothChecks ==
    \A u \in DOMAIN cache.files :
        (cache.files[u].status = "success"
            /\ cache.files[u].download_path \in DOMAIN raw) =>
            /\ VerifyPdf(raw[cache.files[u].download_path])
            /\ ~TooSmall(raw[cache.files[u].download_path].size)

\* C33: when a call of download_file has ended with the record Success,
\* by a fetch or by verifying the file in place, and whatever the record
\* was before, the record's last_error is None and its file_size is set.
C33_SuccessClearsLastError ==
    (cmd = "download" /\ pc = "returned"
        /\ cache.files[CurrentUrl].status = "success") =>
        /\ cache.files[CurrentUrl].last_error = "None"
        /\ cache.files[CurrentUrl].file_size # NoSize

\* C34: a call of download_file sends at most one request, at its entry
\* step and for its own record; in a run download_file is called only on a
\* record no call has touched, so a request for a file URL finds the record
\* without any attempt and leaves it with one.
C34_OneRequestPerFilePerRun ==
    [][ /\ \A u \in Urls :
              last_request' = FileRequest(u) =>
                  /\ pc = "dl_check" /\ u = CurrentUrl
                  /\ cache.files[u].download_attempts = 0
                  /\ cache'.files[u].download_attempts = 1
        /\ (pc # "dl_check" /\ pc' = "dl_check") =>
                  /\ cache.files[files'[file_i']].status = "pending"
                  /\ cache.files[files'[file_i']].download_attempts = 0
                  /\ \A j \in 1..(file_i' - 1) : files'[j] # files'[file_i']
      ]_vars

\* A run has requested both files of dataset 1, each once: the first was
\* refused, the second stored.
C34_Witness ==
    /\ cmd = "run" /\ pc = "summary"
    /\ DOMAIN cache.files = {"u1", "u3"}
    /\ cache.files["u1"].status = "failed"
    /\ cache.files["u1"].download_attempts = 1
    /\ cache.files["u3"].status = "success"
    /\ cache.files["u3"].download_attempts = 1

\* C35: _save_cache is called when a page walk has completed, and in the
\* download loop after every 10th call of download_file and after the last
\* one; never more than 10 calls have ended without a save called since.
C35_SaveCadence ==
    /\ unsaved <= SaveEvery
    /\ pc = "after_walk" => unsaved = 0
    /\ (pc = "dl_next" /\ (file_i % SaveEvery = 0 \/ file_i = Len(files))) =>
            unsaved = 0

\* The 11th and last file of a dataset is being fetched after the save
\* that followed the 10th; ten records of the dataset have left Pending.
C35_Witness ==
    /\ pc = "dl_stream" /\ file_i = 11 /\ Len(files) = 11
    /\ unsaved = 0
    /\ Cardinality({u \in DOMAIN cache.files :
                        cache.files[u].status # "pending"}) = 10

\* The records one iteration of the walk's loop added to all_files.
C36_PageList ==
    SubSeq(all_files', Len(all_files) + 1, Len(all_files'))

C37_SuccessPathsAreDistinct ==
    \A u, v \in DOMAIN cache.files :
        (u # v /\ cache.files[u].status = "success"
               /\ cache.files[v].status = "success") =>
            cache.files[u].download_path # cache.files[v].download_path

\* The pages at the end of a log that came back without a link or with an
\* HTTP error, counted from the answers alone.
RECURSIVE C38_EmptiesOf(_)
C38_EmptiesOf(log) ==
    IF log = <<>> THEN 0
    ELSE LET net == log[Len(log)][2]
         IN IF net.kind = "http" /\ net.code = 200 /\ net.links # <<>>
            THEN 0
            ELSE 1 + C38_EmptiesOf(SubSeq(log, 1, Len(log) - 1))

\* C38: the pages a walk requests depend on the answers of the server
\* alone: whatever the cache holds, the walk has requested the pages 0, 1,
\* 2, ... in order, its counter of empty pages is the one the answers
\* give, and it requests the next page exactly when the answers so far
\* allow it.
C38_PagesDependOnAnswersOnly ==
    (cmd = "walk" /\ pc = "walk") =>
        /\ page = Len(page_log)
        /\ \A i \in 1..Len(page_log) : page_log[i][1] = i - 1
        /\ consecutive_empty_pages = C38_EmptiesOf(page_log)
        /\ ENABLED WalkPage <=>
               (Len(page_log) < max_pages
                   /\ C38_EmptiesOf(page_log) < max_consecutive_empty)

\* A walk whose cache knows every URL has requested four pages that all
\* listed known files, and goes on.
C38_Witness ==
    /\ cmd = "walk" /\ pc = "walk"
    /\ cache = CacheKnowing(Urls)
    /\ Len(page_log) = 4
    /\ \A i \in 1..4 : page_log[i][2].links # <<>>
    /\ consecutive_empty_pages = 0
    /\ ENABLED WalkPage

\* C39: when the walk has returned, whatever ended its loop, every URL
\* extracted from the pages it was answered is a record of the files map,
\* the dataset is in datasets_scanned, and the cache file holds the state.
C39_WalkMergesRecordsAndSaves ==
    (cmd = "walk" /\ pc = "returned") =>
        /\ ExtractedUrls(page_log) \subseteq DOMAIN cache.files
        /\ dataset_num \in cache.datasets_scanned
        /\ cache_file.kind = "json"
        /\ SameState(LoadCache(cache_file), cache)

\* C40: at no step of cleanup_all at which the process can be killed is its
\* work seen half-done on the disk: when it has deleted a payload file, the
\* state the cache file loads to holds no Success record whose file is
\* gone, and is already the reset state.
C40_CleanupIsNeverSeenHalfDone ==
    [][ (cmd = "cleanup" /\ raw' # raw) =>
            /\ \A u \in DOMAIN LoadCache(cache_file').files :
                   LoadCache(cache_file').files[u].status = "success" =>
                       LoadCache(cache_file').files[u].download_path
                           \in DOMAIN raw'
            /\ IsEmpty(LoadCache(cache_file'))
      ]_vars

====
